---- MODULE Spec2Model ----
(***************************************************************************)
(* State-machine model of app.py, the Fusion Finance recovery dashboard:   *)
(* one Streamlit script run per user interaction (page set-up, file check, *)
(* cached load_data, column detection, sidebar filters, refresh button,    *)
(* filtering, KPI helpers, the two group-by summaries and the table).      *)
(*                                                                         *)
(* Text is modelled as a sequence of one-character strings so that         *)
(* strip(), lower(), the substring test `k in c.lower()`, sorted() and     *)
(* numeric parsing are computed character by character.                   *)
(***************************************************************************)
EXTENDS Integers, Sequences, FiniteSets, TLC

(* ------------------------- bounds of the model ------------------------- *)
\* largest number of data rows of a spreadsheet on disk
MaxRows ==
    2

\* largest number of column names / keywords handed to find_col on its own
MaxCols ==
    2

MaxKeys ==
    2

(* ------------------------------ text ---------------------------------- *)
NoOfLoans ==
    <<"N", "o", " ", "o", "f", " ", "L", "o", "a", "n", "s">>

DailedCustomers ==
    <<"D", "a", "i", "l", "e", "d", " ", "C", "u", "s", "t", "o", "m", "e", "r", "s">>

Connect ==
    <<"C", "o", "n", "n", "e", "c", "t">>

NosOfPTP ==
    <<"N", "o", "s", ".", " ", "o", "f", " ", "P", "T", "P">>

NosOfLoansPaid ==
    <<"N", "o", "s", " ", "o", "f", " ", "L", "o", "a", "n", "s", " ", "P", "a", "i", "d">>

Intensity ==
    <<"I", "n", "t", "e", "n", "s", "i", "t", "y">>

CollectionAmount ==
    <<"C", "o", "l", "l", "e", "c", "t", "i", "o", "n", " ", "A", "m", "o", "u", "n", "t">>

PrincipalOutstanding ==
    <<"P", "r", "i", "n", "c", "i", "p", "a", "l", " ", "O", "u", "t", "s", "t", "a", "n", "d", "i", "n", "g">>

POS100 ==
    <<"P", "O", "S", " ", "1", "0", "0", "%">>

TotalAmt100 ==
    <<"T", "o", "t", "a", "l", " ", "A", "m", "t", " ", "1", "0", "0", "%">>

TotalDefaultAmount ==
    <<"T", "o", "t", "a", "l", " ", "D", "e", "f", "a", "u", "l", "t", " ", "A", "m", "o", "u", "n", "t">>

sAll ==
    <<"A", "l", "l">>

sConnected ==
    <<"C", "o", "n", "n", "e", "c", "t", "e", "d">>

sNotConnected ==
    <<"N", "o", "t", " ", "C", "o", "n", "n", "e", "c", "t", "e", "d">>

sNan ==
    <<"n", "a", "n">>

kState ==
    <<"s", "t", "a", "t", "e">>

kDpd ==
    <<"d", "p", "d">>

hState ==
    <<"S", "t", "a", "t", "e">>

hStateSp ==
    <<" ", "S", "t", "a", "t", "e", " ">>

hRegion ==
    <<"R", "e", "g", "i", "o", "n">>

hDPDBucket ==
    <<"D", "P", "D", " ", "B", "u", "c", "k", "e", "t">>

hDpdLower ==
    <<"d", "p", "d">>

hArea ==
    <<"A", "r", "e", "a">>

hDays ==
    <<"D", "a", "y", "s">>

hConnectSp ==
    <<" ", "C", "o", "n", "n", "e", "c", "t", " ">>

vMH ==
    <<"M", "H">>

vUP ==
    <<"U", "P">>

v0_30 ==
    <<"0", "-", "3", "0">>

v31_60 ==
    <<"3", "1", "-", "6", "0">>

vAbc ==
    <<"a", "b", "c">>

v150 ==
    <<"1", "5", "0">>

UpperCase ==
    <<"A", "B", "C", "D", "E", "F", "G", "H", "I", "J", "K", "L", "M", "N", "O", "P", "Q", "R", "S", "T", "U", "V", "W", "X", "Y", "Z">>

LowerCase ==
    <<"a", "b", "c", "d", "e", "f", "g", "h", "i", "j", "k", "l", "m", "n", "o", "p", "q", "r", "s", "t", "u", "v", "w", "x", "y", "z">>

Digits ==
    <<"0", "1", "2", "3", "4", "5", "6", "7", "8", "9">>

CodeOrder ==
    <<" ", "%", "-", ".", "0", "1", "2", "3", "4", "5", "6", "7", "8", "9", "A", "B", "C", "D", "E", "F", "G", "H", "I", "J", "K", "L", "M", "N", "O", "P", "Q", "R", "S", "T", "U", "V", "W", "X", "Y", "Z", "a", "b", "c", "d", "e", "f", "g", "h", "i", "j", "k", "l", "m", "n", "o", "p", "q", "r", "s", "t", "u", "v", "w", "x", "y", "z">>

\* Python None (find_col's "not found"); no text equals it, every element of
\* a text being a single character
None ==
    <<"None">>

\* ch.lower() for one character
LowerCh(ch) ==
    IF \E i \in 1..Len(UpperCase) : UpperCase[i] = ch
    THEN LowerCase[CHOOSE i \in 1..Len(UpperCase) : UpperCase[i] = ch]
    ELSE ch

\* c.lower()
str_lower(s) ==
    [i \in 1..Len(s) |-> LowerCh(s[i])]

RECURSIVE str_lstrip(_)
str_lstrip(s) ==
    IF Len(s) > 0 /\ Head(s) = " " THEN str_lstrip(Tail(s)) ELSE s

RECURSIVE str_rstrip(_)
str_rstrip(s) ==
    IF Len(s) > 0 /\ s[Len(s)] = " " THEN str_rstrip(SubSeq(s, 1, Len(s) - 1)) ELSE s

\* str(c).strip() of a header that is already text
str_strip(s) ==
    str_rstrip(str_lstrip(s))

\* k in c
str_in(k, c) ==
    \E i \in 0..(Len(c) - Len(k)) : SubSeq(c, i + 1, i + Len(k)) = k

\* code point order of the characters that occur in the model
Ord(ch) ==
    CHOOSE i \in 1..Len(CodeOrder) : CodeOrder[i] = ch

\* a < b for Python str (lexicographic by code point)
RECURSIVE str_lt(_, _)
str_lt(a, b) ==
    IF Len(b) = 0 THEN FALSE
    ELSE IF Len(a) = 0 THEN TRUE
    ELSE IF Head(a) = Head(b) THEN str_lt(Tail(a), Tail(b))
    ELSE Ord(Head(a)) < Ord(Head(b))

\* x in seq
InSeq(x, seq) ==
    \E i \in 1..Len(seq) : seq[i] = x

\* position of the first occurrence of x in seq (x occurs in seq)
IndexOf(x, seq) ==
    CHOOSE i \in 1..Len(seq) : seq[i] = x /\ \A j \in 1..(i - 1) : seq[j] # x

\* sorted(values) for a set of texts
RECURSIVE sorted(_)
sorted(S) ==
    IF S = {} THEN <<>>
    ELSE LET m == CHOOSE x \in S : \A y \in S \ {x} : str_lt(x, y)
         IN <<m>> \o sorted(S \ {m})

(* ------------------------------ cells --------------------------------- *)
\* a spreadsheet / DataFrame cell: a number, a text, or missing (NaN)
Num(n) ==
    [t |-> "num", n |-> n, s |-> <<>>]

Str(s) ==
    [t |-> "str", n |-> 0, s |-> s]

NaN ==
    [t |-> "nan", n |-> 0, s |-> <<>>]

IsDigit(ch) ==
    \E i \in 1..Len(Digits) : Digits[i] = ch

DigitVal(ch) ==
    (CHOOSE i \in 1..Len(Digits) : Digits[i] = ch) - 1

RECURSIVE ParseDigits(_, _)
ParseDigits(s, acc) ==
    IF Len(s) = 0 THEN acc ELSE ParseDigits(Tail(s), 10 * acc + DigitVal(Head(s)))

\* text that pandas parses as an integer: optional minus sign, then digits
IsIntText(s) ==
    LET body == IF Len(s) > 0 /\ Head(s) = "-" THEN Tail(s) ELSE s
    IN Len(body) > 0 /\ \A i \in 1..Len(body) : IsDigit(body[i])

ParseInt(s) ==
    IF Head(s) = "-" THEN 0 - ParseDigits(Tail(s), 0) ELSE ParseDigits(s, 0)

\* pd.to_numeric(cell, errors="coerce"): numbers stay, numeric text is
\* parsed, everything else becomes NaN
to_numeric(c) ==
    IF c.t = "num" THEN c
    ELSE IF c.t = "str" /\ IsIntText(c.s) THEN Num(ParseInt(c.s))
    ELSE NaN

\* .fillna(v) on one cell
fillna(c, v) ==
    IF c.t = "nan" THEN Num(v) ELSE c

\* str(x) of a cell, as Series.astype(str) does it
RECURSIVE NatText(_)
NatText(n) ==
    IF n < 10 THEN <<Digits[n + 1]>> ELSE NatText(n \div 10) \o <<Digits[(n % 10) + 1]>>

astype_str(c) ==
    IF c.t = "str" THEN c.s
    ELSE IF c.t = "nan" THEN sNan
    ELSE IF c.n < 0 THEN <<"-">> \o NatText(0 - c.n) ELSE NatText(c.n)

(* ------------------------------ tables -------------------------------- *)
\* A DataFrame: column labels, the index labels of its rows, and the rows
\* (row i is the tuple of its cells, in column order).
NoTable ==
    [cols |-> <<>>, idx |-> <<>>, rows |-> <<>>]

HasCol(t, name) ==
    InSeq(name, t.cols)

\* t[name] as the sequence of its cells
Column(t, name) ==
    [i \in 1..Len(t.rows) |-> t.rows[i][IndexOf(name, t.cols)]]

RECURSIVE PositionsFrom(_, _)
PositionsFrom(mask, i) ==
    IF i > Len(mask) THEN <<>>
    ELSE (IF mask[i] THEN <<i>> ELSE <<>>) \o PositionsFrom(mask, i + 1)

\* t[mask]: boolean-mask selection keeps the index labels of the kept rows
Take(t, mask) ==
    LET pos == PositionsFrom(mask, 1)
    IN [cols |-> t.cols,
        idx  |-> [k \in 1..Len(pos) |-> t.idx[pos[k]]],
        rows |-> [k \in 1..Len(pos) |-> t.rows[pos[k]]]]

RECURSIVE SumCells(_)
SumCells(cells) ==
    IF Len(cells) = 0 THEN 0 ELSE Head(cells).n + SumCells(Tail(cells))

\* t[name].sum(); missing cells count as 0
ColSum(t, name) ==
    SumCells(Column(t, name))

(* ---------------------------- load_data ------------------------------- *)
DATA_PATH ==
    "Fusion_1_30_Allocation.xlsb"

numeric_cols ==
    <<NoOfLoans, DailedCustomers, Connect, NosOfPTP, NosOfLoansPaid, Intensity,
      CollectionAmount, PrincipalOutstanding, POS100, TotalAmt100, TotalDefaultAmount>>

\* pd.read_excel: header row becomes the columns, rows get a RangeIndex
read_excel(file) ==
    [cols |-> file.cols,
     idx  |-> [i \in 1..Len(file.rows) |-> i - 1],
     rows |-> file.rows]

\* pd.to_numeric(..., errors="coerce").fillna(0) on one cell
coerce_nofill(c) ==
    to_numeric(c)

coerce(c) ==
    fillna(to_numeric(c), 0)

\* body of load_data (without the cache decorator)
load_data(file) ==
    LET raw  == read_excel(file)
        cols == [j \in 1..Len(raw.cols) |-> str_strip(raw.cols[j])]
    IN [cols |-> cols,
        idx  |-> raw.idx,
        rows |-> [i \in 1..Len(raw.rows) |->
                    [j \in 1..Len(cols) |->
                        IF InSeq(cols[j], numeric_cols)
                        THEN coerce(raw.rows[i][j])
                        ELSE raw.rows[i][j]]]]

\* @st.cache_data: the entries stored for load_data, keyed by its argument
NoCache ==
    {}

cache_hit_never(c, path) ==
    FALSE

cache_hit(c, path) ==
    \E e \in c : e.path = path

cache_get(c, path) ==
    (CHOOSE e \in c : e.path = path).value

cache_put(c, path, value) ==
    {e \in c : e.path # path} \cup {[path |-> path, value |-> value]}

(* ----------------------------- find_col ------------------------------- *)
\* the loops swapped: first keyword with a match wins
RECURSIVE find_col_keyfirst(_, _)
find_col_keyfirst(columns, keys) ==
    IF Len(keys) = 0 THEN None
    ELSE IF \E i \in 1..Len(columns) : str_in(Head(keys), str_lower(columns[i]))
    THEN columns[CHOOSE i \in 1..Len(columns) :
                    /\ str_in(Head(keys), str_lower(columns[i]))
                    /\ \A j \in 1..(i - 1) : ~str_in(Head(keys), str_lower(columns[j]))]
    ELSE find_col_keyfirst(columns, Tail(keys))

\* the test without .lower()
RECURSIVE find_col_nolower(_, _)
find_col_nolower(columns, keys) ==
    IF Len(columns) = 0 THEN None
    ELSE IF \E i \in 1..Len(keys) : str_in(keys[i], Head(columns))
    THEN Head(columns)
    ELSE find_col_nolower(Tail(columns), keys)

\* for c in df.columns: for k in keys: if k in c.lower(): return c
RECURSIVE find_col(_, _)
find_col(columns, keys) ==
    IF Len(columns) = 0 THEN None
    ELSE IF \E i \in 1..Len(keys) : str_in(keys[i], str_lower(Head(columns)))
    THEN Head(columns)
    ELSE find_col(Tail(columns), keys)

\* `not state_col or not dpd_col`
unresolved_and(sc, dc) ==
    (sc = None \/ Len(sc) = 0) /\ (dc = None \/ Len(dc) = 0)

unresolved(sc, dc) ==
    (sc = None \/ Len(sc) = 0) \/ (dc = None \/ Len(dc) = 0)

(* ------------------------ filters and helpers ------------------------- *)
\* options of a selectbox: ["All"] + sorted(df[col].astype(str).unique())
text_values(t, col) ==
    {astype_str(Column(t, col)[i]) : i \in 1..Len(t.rows)}

options(t, col) ==
    <<sAll>> \o sorted(text_values(t, col))

\* filtered_df[filtered_df[col].astype(str) == choice]
filter_text(t, col, choice) ==
    Take(t, [i \in 1..Len(t.rows) |-> astype_str(Column(t, col)[i]) = choice])

\* the comparison of the connect filter on one cell
connect_keep_ge(c, choice) ==
    IF choice = sConnected THEN c.n >= 0 ELSE c.n = 0

connect_keep(c, choice) ==
    IF choice = sConnected THEN c.n > 0 ELSE c.n = 0

filter_connect(t, choice) ==
    Take(t, [i \in 1..Len(t.rows) |-> connect_keep(Column(t, Connect)[i], choice)])

\* the state and DPD filters (each applied unless its selectbox says "All")
base_filter(t, sc, dc, s, d) ==
    LET f1 == IF s # sAll THEN filter_text(t, sc, s) ELSE t
    IN IF d # sAll THEN filter_text(f1, dc, d) ELSE f1

\* the connect filter raises KeyError: "Connect" is looked up and is absent
connect_raises(t, c) ==
    c \in {sConnected, sNotConnected} /\ ~HasCol(t, Connect)

\* filtered_df after the three filters (when the connect filter does not raise)
apply_filters(t, sc, dc, s, d, c) ==
    LET base == base_filter(t, sc, dc, s, d)
    IN IF c \in {sConnected, sNotConnected} THEN filter_connect(base, c) ELSE base

\* 1e7, one crore
Crore ==
    10000000

\* round(x / 1e7, 2) in hundredths of a crore, for an integer x that is not
\* exactly half way between two hundredths
round2_floor(x) ==
    x \div (Crore \div 100)

round2(x) ==
    (2 * x + (Crore \div 100)) \div (2 * (Crore \div 100))

\* def total(col): the sums of the model are integers, int() leaves them
total(t, col) ==
    IF HasCol(t, col) THEN ColSum(t, col) ELSE 0

\* def crore(col), in hundredths of a crore
crore(t, col) ==
    IF HasCol(t, col) THEN round2(ColSum(t, col)) ELSE 0

kpi_cards(t) ==
    [loans      |-> total(t, NoOfLoans),
     dialed     |-> total(t, DailedCustomers),
     connected  |-> total(t, Connect),
     ptp        |-> total(t, NosOfPTP),
     intensity  |-> total(t, Intensity),
     collection |-> crore(t, CollectionAmount),
     pos        |-> crore(t, PrincipalOutstanding),
     default    |-> crore(t, TotalDefaultAmount)]

NoKpi ==
    [loans |-> 0, dialed |-> 0, connected |-> 0, ptp |-> 0, intensity |-> 0,
     collection |-> 0, pos |-> 0, default |-> 0]

\* x / 1e7 kept exact, as the fraction num / den
div_1e7(x) ==
    [num |-> x, den |-> Crore]

\* keys of groupby(col): the distinct values of col, missing ones dropped
group_keys(t, col) ==
    {c \in {Column(t, col)[i] : i \in 1..Len(t.rows)} : c.t # "nan"}

\* the groups in the order groupby(sort=True) gives them
sorted_keys(t, col) ==
    LET ks == group_keys(t, col)
        txt == sorted({astype_str(k) : k \in ks})
    IN [i \in 1..Len(txt) |-> CHOOSE k \in ks : astype_str(k) = txt[i]]

group_sum(t, col, key, valcol) ==
    ColSum(Take(t, [i \in 1..Len(t.rows) |-> Column(t, col)[i] = key]), valcol)

\* filtered_df.groupby(state_col)[[...]].sum().reset_index() plus the Cr columns
state_summary_of(t, col) ==
    LET ks == sorted_keys(t, col)
    IN [i \in 1..Len(ks) |->
          [key |-> ks[i],
           CollectionAmount     |-> group_sum(t, col, ks[i], CollectionAmount),
           PrincipalOutstanding |-> group_sum(t, col, ks[i], PrincipalOutstanding),
           CollectionCr |-> div_1e7(group_sum(t, col, ks[i], CollectionAmount)),
           POSCr        |-> div_1e7(group_sum(t, col, ks[i], PrincipalOutstanding))]]

\* filtered_df.groupby(dpd_col)["Collection Amount"].sum().reset_index()
dpd_summary_of(t, col) ==
    LET ks == sorted_keys(t, col)
    IN [i \in 1..Len(ks) |->
          [key |-> ks[i],
           CollectionAmount |-> group_sum(t, col, ks[i], CollectionAmount),
           CollectionCr |-> div_1e7(group_sum(t, col, ks[i], CollectionAmount))]]

(* --------------------- spreadsheets the model loads -------------------- *)
\* rows of a full sheet: State, DPD Bucket, Connect, Collection Amount,
\* Principal Outstanding
RowPool ==
    { <<Str(vMH),  Str(v0_30),  Num(1),    Num(10000000), Num(20000000)>>,
      <<Str(vMH),  Str(v31_60), Num(0),    Num(20000000), Num(0)>>,
      <<NaN,       Str(v0_30),  Str(vAbc), Str(v150),     NaN>>,
      <<Str(sAll), Str(v31_60), Num(0 - 1), Num(80000),   Num(0 - 10000000)>>,
      <<Str(vUP),  Str(v0_30),  Num(2),    Num(0),        Num(30000000)>> }

\* header rows: the header text and the cell of the full row it labels
Col(name, src) ==
    [name |-> name, src |-> src]

Headers ==
    { <<Col(hState, 1), Col(hDPDBucket, 2), Col(Connect, 3),
        Col(CollectionAmount, 4), Col(PrincipalOutstanding, 5)>>,
      <<Col(hDpdLower, 2), Col(hStateSp, 1), Col(hConnectSp, 3),
        Col(CollectionAmount, 4), Col(PrincipalOutstanding, 5)>>,
      <<Col(hRegion, 1), Col(hDPDBucket, 2), Col(Connect, 3)>>,
      <<Col(hState, 1), Col(hDPDBucket, 2),
        Col(CollectionAmount, 4), Col(PrincipalOutstanding, 5)>>,
      <<Col(hState, 1), Col(hDPDBucket, 2), Col(Connect, 3)>>,
      <<Col(hArea, 1), Col(hDays, 2)>> }

RowSeqs(n) ==
    UNION {[1..k -> RowPool] : k \in 0..n}

MakeFile(h, rs) ==
    [exists |-> TRUE,
     cols |-> [j \in 1..Len(h) |-> h[j].name],
     rows |-> [i \in 1..Len(rs) |-> [j \in 1..Len(h) |-> rs[i][h[j].src]]]]

NoFile ==
    [exists |-> FALSE, cols |-> <<>>, rows |-> <<>>]

Files ==
    {MakeFile(h, rs) : h \in Headers, rs \in RowSeqs(MaxRows)}

(* ------------------------------ state --------------------------------- *)
VARIABLES
    disk,            \* the spreadsheet at DATA_PATH (or NoFile)
    cache,           \* entries of st.cache_data for load_data
    pc,              \* position of the current script run
    out,             \* elements the current run has put on the page
    df,              \* result of load_data in the current run
    state_col,       \* find_col(["state"])
    dpd_col,         \* find_col(["dpd"])
    state,           \* value of the "Select State" selectbox
    dpd,             \* value of the "Select DPD Bucket" selectbox
    connect_filter,  \* value of the "Connect Status" selectbox
    filtered_df,     \* the filtered copy of df
    kpi,             \* the eight KPI values
    state_summary,   \* rows of the state-wise summary
    dpd_summary,     \* rows of the DPD-wise summary
    sinceClear,      \* history: load_data was called since the cache was last empty
    didRead,         \* history: the last load_data call read the file
    prevLoad,        \* history: what the last load_data call returned
    columns,         \* find_col on its own: the column names
    keys,            \* find_col on its own: the keywords
    found,           \* find_col on its own: the result
    fpc              \* find_col on its own: "call", "ret" or "off"

vars ==
    <<disk, cache, pc, out, df, state_col, dpd_col, state, dpd, connect_filter,
      filtered_df, kpi, state_summary, dpd_summary, sinceClear, didRead,
      prevLoad, columns, keys, found, fpc>>

locals ==
    <<df, state_col, dpd_col, state, dpd, connect_filter, filtered_df, kpi,
      state_summary, dpd_summary>>

history ==
    <<sinceClear, didRead, prevLoad>>

finder ==
    <<columns, keys, found, fpc>>

\* the script's globals before a run has assigned them
LocalsReset ==
    /\ df = NoTable
    /\ state_col = None
    /\ dpd_col = None
    /\ state = sAll
    /\ dpd = sAll
    /\ connect_filter = sAll
    /\ filtered_df = NoTable
    /\ kpi = NoKpi
    /\ state_summary = <<>>
    /\ dpd_summary = <<>>

LocalsReset_next ==
    /\ df' = NoTable
    /\ state_col' = None
    /\ dpd_col' = None
    /\ state' = sAll
    /\ dpd' = sAll
    /\ connect_filter' = sAll
    /\ filtered_df' = NoTable
    /\ kpi' = NoKpi
    /\ state_summary' = <<>>
    /\ dpd_summary' = <<>>

Init ==
    /\ disk \in Files \cup {NoFile}
    /\ cache = NoCache
    /\ pc = "setup"
    /\ out = <<>>
    /\ LocalsReset
    /\ sinceClear = FALSE
    /\ didRead = FALSE
    /\ prevLoad = <<>>
    /\ columns = <<>>
    /\ keys = <<>>
    /\ found = None
    /\ fpc = "off"

(* ------------------------ one script run ------------------------------ *)
\* st.set_page_config and the CSS block
PageSetup ==
    /\ pc = "setup"
    /\ out' = Append(out, "css")
    /\ pc' = "check_file"
    /\ UNCHANGED <<disk, cache, locals, history, finder>>

\* if not os.path.exists(DATA_PATH): st.error(...); st.stop()
CheckFile ==
    /\ pc = "check_file"
    /\ IF ~disk.exists
       THEN /\ out' = Append(out, "error_file")
            /\ pc' = "stopped"
       ELSE /\ out' = out
            /\ pc' = "load"
    /\ UNCHANGED <<disk, cache, locals, history, finder>>

\* df = load_data(DATA_PATH), through @st.cache_data
LoadData ==
    /\ pc = "load"
    /\ IF cache_hit(cache, DATA_PATH)
       THEN /\ df' = cache_get(cache, DATA_PATH)
            /\ cache' = cache
            /\ didRead' = FALSE
       ELSE /\ df' = load_data(disk)
            /\ cache' = cache_put(cache, DATA_PATH, load_data(disk))
            /\ didRead' = TRUE
    /\ sinceClear' = TRUE
    /\ prevLoad' = <<df'>>
    /\ pc' = "find_col"
    /\ UNCHANGED <<disk, out, state_col, dpd_col, state, dpd, connect_filter,
                   filtered_df, kpi, state_summary, dpd_summary, finder>>

\* state_col / dpd_col detection and the check that follows it
ResolveColumns ==
    /\ pc = "find_col"
    /\ state_col' = find_col(df.cols, <<kState>>)
    /\ dpd_col' = find_col(df.cols, <<kDpd>>)
    /\ IF unresolved(state_col', dpd_col')
       THEN /\ out' = Append(out, "error_cols")
            /\ pc' = "stopped"
       ELSE /\ out' = out
            /\ pc' = "sidebar"
    /\ UNCHANGED <<disk, cache, df, state, dpd, connect_filter, filtered_df,
                   kpi, state_summary, dpd_summary, history, finder>>

ConnectChoices ==
    {sAll, sConnected, sNotConnected}

\* the three selectboxes return what the user has selected among their options
SidebarFilters ==
    /\ pc = "sidebar"
    /\ \E s \in {options(df, state_col)[i] : i \in 1..Len(options(df, state_col))},
          d \in {options(df, dpd_col)[i] : i \in 1..Len(options(df, dpd_col))},
          c \in ConnectChoices :
            /\ state' = s
            /\ dpd' = d
            /\ connect_filter' = c
    /\ out' = Append(out, "filters")
    /\ pc' = "button"
    /\ UNCHANGED <<disk, cache, df, state_col, dpd_col, filtered_df, kpi,
                   state_summary, dpd_summary, history, finder>>

\* if st.sidebar.button("Refresh Data"): st.cache_data.clear(); st.rerun()
RefreshButton ==
    /\ pc = "button"
    /\ \E clicked \in BOOLEAN :
         IF clicked
         THEN /\ cache' = NoCache
              /\ sinceClear' = FALSE
              /\ out' = <<>>
              /\ pc' = "setup"
              /\ LocalsReset_next
         ELSE /\ pc' = "filter"
              /\ UNCHANGED <<cache, sinceClear, out, locals>>
    /\ UNCHANGED <<disk, didRead, prevLoad, finder>>

\* filtered_df = df.copy() and the three filters; filtered_df["Connect"]
\* raises KeyError when the column is absent
ApplyFilters ==
    /\ pc = "filter"
    /\ IF connect_raises(df, connect_filter)
       THEN /\ filtered_df' = base_filter(df, state_col, dpd_col, state, dpd)
            /\ out' = Append(out, "exception")
            /\ pc' = "raised"
       ELSE /\ filtered_df' = apply_filters(df, state_col, dpd_col, state, dpd, connect_filter)
            /\ out' = out
            /\ pc' = "kpi"
    /\ UNCHANGED <<disk, cache, df, state_col, dpd_col, state, dpd,
                   connect_filter, kpi, state_summary, dpd_summary, history,
                   finder>>

\* header, caption and the two KPI grids
KpiSection ==
    /\ pc = "kpi"
    /\ kpi' = kpi_cards(filtered_df)
    /\ out' = out \o <<"header", "kpi">>
    /\ pc' = "state_summary"
    /\ UNCHANGED <<disk, cache, df, state_col, dpd_col, state, dpd,
                   connect_filter, filtered_df, state_summary, dpd_summary,
                   history, finder>>

\* state_summary and its chart; selecting an absent column raises KeyError
StateSummary ==
    /\ pc = "state_summary"
    /\ IF HasCol(filtered_df, CollectionAmount) /\ HasCol(filtered_df, PrincipalOutstanding)
       THEN /\ state_summary' = state_summary_of(filtered_df, state_col)
            /\ out' = out \o <<"insights", "state_chart">>
            /\ pc' = "dpd_summary"
       ELSE /\ state_summary' = state_summary
            /\ out' = out \o <<"insights", "exception">>
            /\ pc' = "raised"
    /\ UNCHANGED <<disk, cache, df, state_col, dpd_col, state, dpd,
                   connect_filter, filtered_df, kpi, dpd_summary, history,
                   finder>>

\* dpd_summary and its chart
DpdSummary ==
    /\ pc = "dpd_summary"
    /\ IF HasCol(filtered_df, CollectionAmount)
       THEN /\ dpd_summary' = dpd_summary_of(filtered_df, dpd_col)
            /\ out' = Append(out, "dpd_chart")
            /\ pc' = "table"
       ELSE /\ dpd_summary' = dpd_summary
            /\ out' = Append(out, "exception")
            /\ pc' = "raised"
    /\ UNCHANGED <<disk, cache, df, state_col, dpd_col, state, dpd,
                   connect_filter, filtered_df, kpi, state_summary, history,
                   finder>>

\* st.dataframe(filtered_df) and the record count
ShowTable ==
    /\ pc = "table"
    /\ out' = out \o <<"table", "success">>
    /\ pc' = "done"
    /\ UNCHANGED <<disk, cache, locals, history, finder>>

RunEnded ==
    pc \in {"done", "stopped", "raised"}

\* a widget interaction makes Streamlit run the script again from the top
Rerun ==
    /\ RunEnded
    /\ out' = <<>>
    /\ pc' = "setup"
    /\ LocalsReset_next
    /\ UNCHANGED <<disk, cache, history, finder>>

Next ==
    \/ PageSetup
    \/ CheckFile
    \/ LoadData
    \/ ResolveColumns
    \/ SidebarFilters
    \/ RefreshButton
    \/ ApplyFilters
    \/ KpiSection
    \/ StateSummary
    \/ DpdSummary
    \/ ShowTable
    \/ Rerun

Spec ==
    Init /\ [][Next]_vars

(* ------------- the cache while the file changes between runs ----------- *)
\* largest number of data rows of the spreadsheets used to exercise the cache
MaxCacheRows ==
    1

CacheRowPool ==
    { <<Str(vMH), Str(v0_30),  Num(1), Num(10000000), Num(20000000)>>,
      <<Str(vUP), Str(v31_60), Num(0), Str(vAbc),     Num(0)>> }

CacheHeader ==
    <<Col(hState, 1), Col(hDPDBucket, 2), Col(hConnectSp, 3),
      Col(CollectionAmount, 4), Col(PrincipalOutstanding, 5)>>

CacheFiles ==
    {MakeFile(CacheHeader, rs) :
        rs \in UNION {[1..k -> CacheRowPool] : k \in 0..MaxCacheRows}}

InitCache ==
    /\ disk \in CacheFiles
    /\ cache = NoCache
    /\ pc = "setup"
    /\ out = <<>>
    /\ LocalsReset
    /\ sinceClear = FALSE
    /\ didRead = FALSE
    /\ prevLoad = <<>>
    /\ columns = <<>>
    /\ keys = <<>>
    /\ found = None
    /\ fpc = "off"

\* somebody replaces or removes the spreadsheet between two script runs
FileChange ==
    /\ RunEnded
    /\ disk' \in (CacheFiles \cup {NoFile}) \ {disk}
    /\ UNCHANGED <<cache, pc, out, locals, history, finder>>

NextCache ==
    \/ Next
    \/ FileChange

SpecCache ==
    InitCache /\ [][NextCache]_vars

(* ------------------------- find_col on its own ------------------------- *)
hEstate ==
    <<"R", "e", "a", "l", " ", "E", "S", "T", "A", "T", "E">>

hStateDpd ==
    <<"S", "t", "a", "t", "e", " ", "D", "P", "D">>

kUpperState ==
    <<"S", "t", "a", "t", "e">>

ColumnNames ==
    {hState, hDPDBucket, hRegion, hEstate, hStateDpd}

KeyWords ==
    {kState, kDpd, kUpperState}

SeqsUpTo(S, n) ==
    UNION {[1..k -> S] : k \in 0..n}

InitFind ==
    /\ disk = NoFile
    /\ cache = NoCache
    /\ pc = "off"
    /\ out = <<>>
    /\ LocalsReset
    /\ sinceClear = FALSE
    /\ didRead = FALSE
    /\ prevLoad = <<>>
    /\ columns \in SeqsUpTo(ColumnNames, MaxCols)
    /\ keys \in SeqsUpTo(KeyWords, MaxKeys)
    /\ found = None
    /\ fpc = "call"

\* one call of find_col(keys) over the given columns
FindCall ==
    /\ fpc = "call"
    /\ found' = find_col(columns, keys)
    /\ fpc' = "ret"
    /\ UNCHANGED <<disk, cache, pc, out, locals, history, columns, keys>>

NextFind ==
    FindCall

SpecFind ==
    InitFind /\ [][NextFind]_vars

(* ============================ properties =============================== *)
AfterLoad ==
    pc \in {"find_col", "sidebar", "button", "filter", "kpi", "state_summary",
            "dpd_summary", "table", "done", "raised", "stopped"} /\ disk.exists

AfterResolve ==
    pc \in {"sidebar", "button", "filter", "kpi", "state_summary",
            "dpd_summary", "table", "done", "raised"}

AfterFilter ==
    pc \in {"kpi", "state_summary", "dpd_summary", "table", "done"}

AfterKpi ==
    pc \in {"state_summary", "dpd_summary", "table", "done"}

AfterStateSummary ==
    pc \in {"dpd_summary", "table", "done"}

Range(s) ==
    {s[i] : i \in 1..Len(s)}

KpiSources ==
    { <<NoOfLoans, "loans">>, <<DailedCustomers, "dialed">>, <<Connect, "connected">>,
      <<NosOfPTP, "ptp">>, <<Intensity, "intensity">>,
      <<CollectionAmount, "collection">>, <<PrincipalOutstanding, "pos">>,
      <<TotalDefaultAmount, "default">> }

CroreSources ==
    { <<CollectionAmount, "collection">>, <<PrincipalOutstanding, "pos">>,
      <<TotalDefaultAmount, "default">> }

\* C1: whenever an optional numeric source column is absent from the loaded
\* table, the run does not raise, the KPI of every absent column is 0, and a
\* run that got past column resolution ends with the whole dashboard shown.
C1_MissingColumnTolerated ==
    (AfterResolve /\ \E p \in KpiSources : ~HasCol(df, p[1])) =>
        /\ pc # "raised"
        /\ AfterKpi => \A p \in KpiSources : ~HasCol(df, p[1]) => kpi[p[2]] = 0
        /\ pc = "done" => out = <<"css", "filters", "header", "kpi", "insights",
                                  "state_chart", "dpd_chart", "table", "success">>

Errors ==
    {"error_file", "error_cols"}

DashboardItems ==
    {"filters", "header", "kpi", "insights", "state_chart", "dpd_chart", "table",
     "success", "exception"}

\* C2: a missing file halts the run before load_data is invoked, an
\* unresolved state or DPD column halts it before any filter, KPI, summary
\* or table is computed; a halted run has emitted exactly one error message,
\* as its last element, and no dashboard element.
C2_HaltsBeforeWork ==
    /\ pc = "stopped" =>
         /\ Cardinality({i \in 1..Len(out) : out[i] \in Errors}) = 1
         /\ out[Len(out)] \in Errors
         /\ \A i \in 1..Len(out) : out[i] \notin DashboardItems
         /\ filtered_df = NoTable /\ kpi = NoKpi
         /\ state_summary = <<>> /\ dpd_summary = <<>>
    /\ (~disk.exists /\ pc \notin {"setup", "check_file"}) =>
         /\ pc = "stopped"
         /\ out[Len(out)] = "error_file"
         /\ df = NoTable /\ cache = NoCache /\ ~sinceClear
    /\ (pc \notin {"setup", "check_file", "load", "find_col"}
          /\ disk.exists /\ (state_col = None \/ dpd_col = None)) =>
         /\ pc = "stopped"
         /\ out[Len(out)] = "error_cols"

C2_Witness ==
    /\ pc = "stopped"
    /\ disk.exists
    /\ state_col = None
    /\ dpd_col = hDPDBucket
    /\ out = <<"css", "error_cols">>

RegionHeaders ==
    <<hRegion, hDPDBucket, Connect>>

\* C5 (as claimed): with the headers Region, DPD Bucket, Connect the state
\* column resolves to "Region", the DPD column to "DPD Bucket", and the run
\* proceeds past column resolution.
C5_RegionResolves ==
    (AfterLoad /\ pc # "find_col" /\ df.cols = RegionHeaders) =>
        /\ state_col = hRegion
        /\ dpd_col = hDPDBucket
        /\ pc # "stopped"

\* C5 (amended): with the headers Region, DPD Bucket, Connect the keyword
\* "state" matches no column (find_col returns None), "dpd" resolves to
\* "DPD Bucket", and the run halts at column resolution with the error.
C5_RegionUnresolved ==
    (AfterLoad /\ pc # "find_col" /\ df.cols = RegionHeaders) =>
        /\ state_col = None
        /\ dpd_col = hDPDBucket
        /\ pc = "stopped"
        /\ out = <<"css", "error_cols">>

C5_Witness ==
    /\ pc = "stopped"
    /\ df.cols = RegionHeaders
    /\ Len(df.rows) > 0

NumericCells ==
    {<<i, j>> \in (1..Len(df.rows)) \X (1..Len(df.cols)) : InSeq(df.cols[j], numeric_cols)}

\* C6 (as claimed): after load every cell of a declared numeric column is a
\* number that is zero or positive, never null; an unparseable cell is 0 and
\* the text "150" is 150.
C6_NumericNonNegative ==
    AfterLoad => \A p \in NumericCells :
        LET c == df.rows[p[1]][p[2]]
            r == disk.rows[p[1]][p[2]]
        IN /\ c.t = "num"
           /\ c.n >= 0
           /\ (r = Str(vAbc) \/ r = NaN) => c.n = 0
           /\ r = Str(v150) => c.n = 150

\* C6 (amended): after load every cell of a declared numeric column is a
\* number, never null; an unparseable or missing cell is 0, the text "150" is
\* 150, and a cell that held a number keeps it, negative numbers included.
C6_NumericNeverNull ==
    AfterLoad => \A p \in NumericCells :
        LET c == df.rows[p[1]][p[2]]
            r == disk.rows[p[1]][p[2]]
        IN /\ c.t = "num"
           /\ (r = Str(vAbc) \/ r = NaN) => c.n = 0
           /\ r = Str(v150) => c.n = 150
           /\ r.t = "num" => c.n = r.n

C6_Witness ==
    /\ pc = "find_col"
    /\ \E p \in NumericCells : disk.rows[p[1]][p[2]] = Str(vAbc) /\ df.rows[p[1]][p[2]] = Num(0)
    /\ \E p \in NumericCells : disk.rows[p[1]][p[2]] = Str(v150) /\ df.rows[p[1]][p[2]] = Num(150)
    /\ \E p \in NumericCells : disk.rows[p[1]][p[2]] = NaN

\* C7: when every Connect value of the table is >= 0, the rows kept by
\* "Connected" and by "Not Connected" on the same state/DPD-filtered base
\* are disjoint, together they are exactly the base, and "All" returns the
\* base; the run's filtered_df is the one of these its selection names.
C7_ConnectPartition ==
    (AfterFilter /\ HasCol(df, Connect)
       /\ \A i \in 1..Len(df.rows) : Column(df, Connect)[i].n >= 0) =>
        LET base == base_filter(df, state_col, dpd_col, state, dpd)
            con  == apply_filters(df, state_col, dpd_col, state, dpd, sConnected)
            non  == apply_filters(df, state_col, dpd_col, state, dpd, sNotConnected)
            all  == apply_filters(df, state_col, dpd_col, state, dpd, sAll)
            mine == IF connect_filter = sConnected THEN con
                    ELSE IF connect_filter = sNotConnected THEN non ELSE all
        IN /\ Range(con.idx) \cap Range(non.idx) = {}
           /\ Range(con.idx) \cup Range(non.idx) = Range(base.idx)
           /\ Len(con.idx) + Len(non.idx) = Len(base.idx)
           /\ all = base
           /\ filtered_df = mine
           /\ \A k \in 1..Len(filtered_df.rows) :
                \E i \in 1..Len(df.rows) :
                    df.idx[i] = filtered_df.idx[k] /\ df.rows[i] = filtered_df.rows[k]

C7_Witness ==
    /\ pc = "kpi"
    /\ connect_filter = sConnected
    /\ HasCol(df, Connect)
    /\ \A i \in 1..Len(df.rows) : Column(df, Connect)[i].n >= 0
    /\ Len(filtered_df.rows) > 0
    /\ Len(filtered_df.rows) < Len(base_filter(df, state_col, dpd_col, state, dpd).rows)

\* index labels of the rows of df whose state cell, as text, is r
RowsOfRegion(r) ==
    {df.idx[i] : i \in {k \in 1..Len(df.rows) : astype_str(Column(df, state_col)[k]) = r}}

\* C8: for every state value r the selectbox offers, filtering by r alone
\* keeps exactly the rows whose state text is r; these sets are pairwise
\* disjoint and cover the table; "All" for all three filters returns the
\* table; the run's filtered_df is what its selection names.
C8_RegionFilterExact ==
    AfterFilter =>
        LET regions == text_values(df, state_col)
            pick(r) == apply_filters(df, state_col, dpd_col, r, sAll, sAll)
        IN /\ \A r \in regions : Range(pick(r).idx) = RowsOfRegion(r)
           /\ \A r1, r2 \in regions :
                r1 # r2 => Range(pick(r1).idx) \cap Range(pick(r2).idx) = {}
           /\ UNION {Range(pick(r).idx) : r \in regions} = Range(df.idx)
           /\ apply_filters(df, state_col, dpd_col, sAll, sAll, sAll) = df
           /\ filtered_df = apply_filters(df, state_col, dpd_col, state, dpd, connect_filter)

Abs(x) ==
    IF x < 0 THEN 0 - x ELSE x

\* C9 (as claimed): each crore KPI is the filtered sum / 1e7 rounded to two
\* decimals, and it is 0 exactly when its column is absent.
C9_ZeroIffAbsent ==
    AfterKpi => \A p \in CroreSources :
        /\ HasCol(filtered_df, p[1]) =>
             2 * Abs(kpi[p[2]] * (Crore \div 100) - ColSum(filtered_df, p[1])) <= Crore \div 100
        /\ kpi[p[2]] = 0 <=> ~HasCol(df, p[1])

\* C9 (amended): each crore KPI is the filtered sum / 1e7 rounded to two
\* decimals (the nearest hundredth of a crore) when its column is present,
\* and 0 when its column is absent.
C9_CroreRounded ==
    AfterKpi => \A p \in CroreSources :
        /\ HasCol(filtered_df, p[1]) =>
             2 * Abs(kpi[p[2]] * (Crore \div 100) - ColSum(filtered_df, p[1])) <= Crore \div 100
        /\ ~HasCol(df, p[1]) => kpi[p[2]] = 0

C9_Witness ==
    /\ pc = "done"
    /\ HasCol(df, CollectionAmount)
    /\ kpi.collection = 1
    /\ ColSum(filtered_df, CollectionAmount) = 80000
    /\ kpi.default = 0

RECURSIVE SumField(_)
SumField(rows) ==
    IF Len(rows) = 0 THEN 0 ELSE Head(rows).CollectionAmount + SumField(Tail(rows))

\* C10: the state summary has exactly one row for each state value present
\* in the filtered rows (a missing state cell included), with the sums of
\* that state's rows, so the per-state collection sums add up to the total
\* the Collection KPI is computed from.
C10_RegionAggregateComplete ==
    AfterStateSummary =>
        /\ \A r \in text_values(filtered_df, state_col) :
             /\ Cardinality({i \in 1..Len(state_summary) :
                               astype_str(state_summary[i].key) = r}) = 1
             /\ \A i \in 1..Len(state_summary) :
                  astype_str(state_summary[i].key) = r =>
                    /\ state_summary[i].CollectionAmount
                         = ColSum(filter_text(filtered_df, state_col, r), CollectionAmount)
                    /\ state_summary[i].PrincipalOutstanding
                         = ColSum(filter_text(filtered_df, state_col, r), PrincipalOutstanding)
        /\ SumField(state_summary) = ColSum(filtered_df, CollectionAmount)
        /\ kpi.collection = round2(SumField(state_summary))

LoadCall ==
    pc = "load" /\ pc' = "find_col"

RefreshClick ==
    pc = "button" /\ pc' = "setup"

\* C3: a load_data call reads the file exactly when it is the first call
\* ever or the first since a refresh; any other call returns the table the
\* previous call returned, whatever is on disk by then; a refresh empties
\* the cache, so the load after it reads the file as it then is.
C3_CacheReads ==
    [][ /\ LoadCall =>
            /\ didRead' <=> ~sinceClear
            /\ sinceClear => df' = prevLoad[1]
            /\ ~sinceClear => df' = load_data(disk)
        /\ RefreshClick => (cache' = NoCache /\ ~sinceClear') ]_vars

C3_Witness ==
    /\ pc = "find_col"
    /\ ~didRead
    /\ disk.exists
    /\ df # load_data(disk)

\* C4: find_col returns the earliest column, in table order, whose
\* lowercased name contains any of the keywords, whatever the order of the
\* keywords, and None exactly when no column contains a keyword.
C4_FirstColumnWins ==
    fpc = "ret" =>
        LET Match(i) == \E k \in 1..Len(keys) : str_in(keys[k], str_lower(columns[i]))
            hits == {i \in 1..Len(columns) : Match(i)}
        IN /\ hits # {} => \E i \in hits : found = columns[i] /\ \A j \in hits : i <= j
           /\ hits = {} <=> found = None

C4_Witness ==
    /\ fpc = "ret"
    /\ columns = <<hDPDBucket, hState>>
    /\ keys = <<kState, kDpd>>
    /\ found = hDPDBucket
====
